---- MODULE Spec2Model ----
(***************************************************************************)
(* Timber yard canister: two stable maps (timber, sales) and one shared    *)
(* id counter, with the validated create / read / update / delete          *)
(* endpoints of lib.rs.  Every endpoint runs to completion (a canister     *)
(* message is atomic), so each endpoint is one action.  An endpoint is     *)
(* written as a function from the stable state st, the clock reading t and *)
(* its arguments to the stable state it leaves and the Result it returns.  *)
(***************************************************************************)
EXTENDS Integers, Sequences, FiniteSets, TLC

(* ---------------------------------------------------------------------- *)
(* Bounds of the model                                                     *)
(* ---------------------------------------------------------------------- *)

\* Successful creates are allowed while ID_COUNTER < MaxId.  The counter is a
\* u64 in the code; ID_COUNTER + 1 cannot wrap within this bound.
MaxId == 2

\* The clock (ic_cdk::api::time) reads 0..MaxTime.
MaxTime == 1

(* ---------------------------------------------------------------------- *)
(* Constants of the program                                                *)
(* ---------------------------------------------------------------------- *)

VALID_TIMBER_TYPES == <<"cyprus", "pine", "oak", "cedar", "spruce">>

VALID_TIMBER_SIZES ==
    <<"2x4", "2x6", "2x8", "2x10", "3x2", "3x4", "4x2", "4x4", "4x6", "6x2",
      "6x4", "8x2", "8x4", "10x2", "10x4">>

(* ---------------------------------------------------------------------- *)
(* Inputs the endpoints are called with                                    *)
(* ---------------------------------------------------------------------- *)

\* Ids passed to get / update / delete and used as timber_id of a sale:
\* 0 is never issued, 1..MaxId may be issued.
Ids == 0 .. MaxId

\* TimberPayload values the properties range over: two valid ones that differ
\* in every field, and one for every combination of failing checks.
ValidTimberPayloads ==
    { [timber_type |-> "oak",    timber_size |-> "2x4", quantity |-> 1],
      [timber_type |-> "pine",   timber_size |-> "4x4", quantity |-> 2] }

InvalidTimberPayloads ==
    { [timber_type |-> "bamboo", timber_size |-> "2x4", quantity |-> 1],
      [timber_type |-> "oak",    timber_size |-> "5x5", quantity |-> 1],
      [timber_type |-> "oak",    timber_size |-> "2x4", quantity |-> 0],
      [timber_type |-> "oak",    timber_size |-> "5x5", quantity |-> 0],
      [timber_type |-> "bamboo", timber_size |-> "5x5", quantity |-> 0] }

TimberPayloads == ValidTimberPayloads \cup InvalidTimberPayloads

\* (quantity, price) pairs of SalesPayload / SalesUpdatePayload.
ValidSalesAmounts ==
    { [quantity |-> 1, price |-> 1],
      [quantity |-> 2, price |-> 2] }

InvalidSalesAmounts ==
    { [quantity |-> 0, price |-> 1],
      [quantity |-> 1, price |-> 0],
      [quantity |-> 0, price |-> 0] }

SalesAmounts == ValidSalesAmounts \cup InvalidSalesAmounts

SalesPayloads ==
    { [timber_id |-> t, quantity |-> a.quantity, price |-> a.price] :
        t \in Ids, a \in SalesAmounts }

\* The id field carried inside the update payloads.
PayloadIds == {1, 2}

TimberUpdatePayloads ==
    { [id |-> j, timber_type |-> p.timber_type, timber_size |-> p.timber_size,
       quantity |-> p.quantity] : j \in PayloadIds, p \in TimberPayloads }

SalesUpdatePayloads ==
    { [id |-> j, quantity |-> a.quantity, price |-> a.price] :
        j \in PayloadIds, a \in SalesAmounts }

\* Payloads the calls are made with.  Creates carry one valid payload and
\* updates the other one, so that an update changes every mutable field of the
\* record it finds; the invalid payloads are all tried.
AddTimberInputs ==
    { p \in TimberPayloads : p \in InvalidTimberPayloads \/ p.timber_type = "oak" }

AddSalesInputs ==
    { p \in SalesPayloads : p.quantity # 2 }

UpdateTimberInputs ==
    { p \in TimberUpdatePayloads :
        \/ p.timber_type = "pine"
        \/ (p.id = 1 /\ (p.timber_type = "bamboo" \/ p.timber_size = "5x5" \/ p.quantity = 0)) }

UpdateSalesInputs ==
    { p \in SalesUpdatePayloads :
        \/ p.quantity = 2
        \/ (p.id = 1 /\ (p.quantity = 0 \/ p.price = 0)) }

\* Filter arguments of the conjunction queries.
QueryTypes == {"oak", "pine", "bamboo"}
QuerySizes == {"2x4", "4x4"}
QueryQuantities == {1, 2}

\* Filters the queries are called with: the field values of the valid payload
\* creates carry, so that an answer lists the timbers no update has changed.
QueryInputs == AddTimberInputs \cap ValidTimberPayloads

(* ---------------------------------------------------------------------- *)
(* Values                                                                  *)
(* ---------------------------------------------------------------------- *)

\* Option<T>
None == <<>>
Some(x) == <<x>>

\* Result<T, String>
Ok(v) == [ok |-> TRUE, val |-> v]
Err(e) == [ok |-> FALSE, err |-> e]

\* slice::contains
Contains(s, x) == \E i \in 1 .. Len(s) : s[i] = x

\* The {:?} rendering of a slice of &str: ["a", "b", ...]
RECURSIVE DebugItems(_, _)
DebugItems(s, i) ==
    IF i > Len(s) THEN ""
    ELSE (IF i > 1 THEN ", " ELSE "") \o "\"" \o s[i] \o "\"" \o DebugItems(s, i + 1)

DebugFmt(s) == "[" \o DebugItems(s, 1) \o "]"

ValidTypesDebug == DebugFmt(VALID_TIMBER_TYPES)
ValidSizesDebug == DebugFmt(VALID_TIMBER_SIZES)

\* StableBTreeMap::get / insert / remove
MapGet(m, k) == IF k \in DOMAIN m THEN Some(m[k]) ELSE None
MapInsert(m, k, v) == [x \in (DOMAIN m) \cup {k} |-> IF x = k THEN v ELSE m[x]]
MapRemove(m, k) == [x \in (DOMAIN m) \ {k} |-> m[x]]

\* What an endpoint leaves behind: the stable state and its result.
Out(st, r) == [st |-> st, ret |-> r]

(* ---------------------------------------------------------------------- *)
(* Helpers of lib.rs                                                       *)
(* ---------------------------------------------------------------------- *)

\* Slip: the incremented value is returned but never persisted.
generate_unique_id_unsaved(st) == [st |-> st, id |-> st.counter + 1]

\* Slip: the value before the increment is handed out (counter++ for ++counter).
generate_unique_id_postinc(st) ==
    [st |-> [st EXCEPT !.counter = st.counter + 1], id |-> st.counter]

generate_unique_id(st) ==
    LET id == st.counter + 1
    IN  [st |-> [st EXCEPT !.counter = id], id |-> id]

\* Slip: the record is built and returned but the insert is lost.
do_insert_timber_lost(st, timber) == st

do_insert_timber(st, timber) ==
    [st EXCEPT !.timber = MapInsert(@, timber.id, timber)]

\* Slip: the sale is keyed by the timber it references.
do_insert_sales_by_timber(st, sales) ==
    [st EXCEPT !.sales = MapInsert(@, sales.timber_id, sales)]

do_insert_sales(st, sales) ==
    [st EXCEPT !.sales = MapInsert(@, sales.id, sales)]

_get_timber(st, id) == MapGet(st.timber, id)

_get_sales(st, id) == MapGet(st.sales, id)

(* ---------------------------------------------------------------------- *)
(* Endpoints                                                               *)
(* ---------------------------------------------------------------------- *)

get_timber(st, id) ==
    LET r == _get_timber(st, id)
    IN  IF r # None THEN Out(st, Ok(r[1]))
        ELSE Out(st, Err("Timber with id=" \o ToString(id) \o " not found"))

get_sales(st, id) ==
    LET r == _get_sales(st, id)
    IN  IF r # None THEN Out(st, Ok(r[1]))
        ELSE Out(st, Err("Sales with id=" \o ToString(id) \o " not found"))

\* Slip: the create of the unvalidated variant, which stores whatever it is given.
add_timber_unvalidated(st, t, timber) ==
    LET g == generate_unique_id(st)
        rec == [id |-> g.id,
                timber_type |-> timber.timber_type,
                timber_size |-> timber.timber_size,
                quantity |-> timber.quantity,
                created_at |-> t,
                updated_at |-> None]
    IN  Out(do_insert_timber(g.st, rec), Ok(rec))

\* Slip: the id is allocated before the payload is validated, so a rejected
\* create still consumes an id.
add_timber_id_first(st, t, timber) ==
    LET g == generate_unique_id(st)
    IN  IF ~Contains(VALID_TIMBER_TYPES, timber.timber_type)
        THEN Out(g.st, Err("Invalid timber type: " \o timber.timber_type
                           \o ". Valid types are: " \o ValidTypesDebug))
        ELSE IF ~Contains(VALID_TIMBER_SIZES, timber.timber_size)
        THEN Out(g.st, Err("Invalid timber size: " \o timber.timber_size
                           \o ". Valid sizes are: " \o ValidSizesDebug))
        ELSE IF timber.quantity = 0
        THEN Out(g.st, Err("Quantity must be greater than zero"))
        ELSE LET rec == [id |-> g.id,
                         timber_type |-> timber.timber_type,
                         timber_size |-> timber.timber_size,
                         quantity |-> timber.quantity,
                         created_at |-> t,
                         updated_at |-> None]
             IN  Out(do_insert_timber(g.st, rec), Ok(rec))

\* Slip: the size branch was pasted from the type branch and still reports
\* the timber_type.
add_timber_pasted_message(st, t, timber) ==
    IF ~Contains(VALID_TIMBER_TYPES, timber.timber_type)
    THEN Out(st, Err("Invalid timber type: " \o timber.timber_type
                     \o ". Valid types are: " \o ValidTypesDebug))
    ELSE IF ~Contains(VALID_TIMBER_SIZES, timber.timber_size)
    THEN Out(st, Err("Invalid timber size: " \o timber.timber_type
                     \o ". Valid sizes are: " \o ValidSizesDebug))
    ELSE IF timber.quantity = 0
    THEN Out(st, Err("Quantity must be greater than zero"))
    ELSE LET g == generate_unique_id(st)
             rec == [id |-> g.id,
                     timber_type |-> timber.timber_type,
                     timber_size |-> timber.timber_size,
                     quantity |-> timber.quantity,
                     created_at |-> t,
                     updated_at |-> None]
         IN  Out(do_insert_timber(g.st, rec), Ok(rec))

add_timber(st, t, timber) ==
    IF ~Contains(VALID_TIMBER_TYPES, timber.timber_type)
    THEN Out(st, Err("Invalid timber type: " \o timber.timber_type
                     \o ". Valid types are: " \o ValidTypesDebug))
    ELSE IF ~Contains(VALID_TIMBER_SIZES, timber.timber_size)
    THEN Out(st, Err("Invalid timber size: " \o timber.timber_size
                     \o ". Valid sizes are: " \o ValidSizesDebug))
    ELSE IF timber.quantity = 0
    THEN Out(st, Err("Quantity must be greater than zero"))
    ELSE LET g == generate_unique_id(st)
             rec == [id |-> g.id,
                     timber_type |-> timber.timber_type,
                     timber_size |-> timber.timber_size,
                     quantity |-> timber.quantity,
                     created_at |-> t,
                     updated_at |-> None]
         IN  Out(do_insert_timber(g.st, rec), Ok(rec))

\* Slip: the referenced timber is not looked up before the sale is recorded.
add_sales_unchecked(st, t, sales) ==
    IF sales.quantity = 0
    THEN Out(st, Err("Quantity must be greater than zero"))
    ELSE IF sales.price = 0
    THEN Out(st, Err("Price must be greater than zero"))
    ELSE LET g == generate_unique_id(st)
             rec == [id |-> g.id,
                     timber_id |-> sales.timber_id,
                     quantity |-> sales.quantity,
                     price |-> sales.price,
                     created_at |-> t,
                     updated_at |-> None]
         IN  Out(do_insert_sales(g.st, rec), Ok(rec))

\* Slip: a new sale is stamped as updated at its creation.
add_sales_stamped(st, t, sales) ==
    IF sales.quantity = 0
    THEN Out(st, Err("Quantity must be greater than zero"))
    ELSE IF sales.price = 0
    THEN Out(st, Err("Price must be greater than zero"))
    ELSE IF _get_timber(st, sales.timber_id) = None
    THEN Out(st, Err("Timber with id=" \o ToString(sales.timber_id) \o " not found"))
    ELSE LET g == generate_unique_id(st)
             rec == [id |-> g.id,
                     timber_id |-> sales.timber_id,
                     quantity |-> sales.quantity,
                     price |-> sales.price,
                     created_at |-> t,
                     updated_at |-> Some(t)]
         IN  Out(do_insert_sales(g.st, rec), Ok(rec))

add_sales(st, t, sales) ==
    IF sales.quantity = 0
    THEN Out(st, Err("Quantity must be greater than zero"))
    ELSE IF sales.price = 0
    THEN Out(st, Err("Price must be greater than zero"))
    ELSE IF _get_timber(st, sales.timber_id) = None
    THEN Out(st, Err("Timber with id=" \o ToString(sales.timber_id) \o " not found"))
    ELSE LET g == generate_unique_id(st)
             rec == [id |-> g.id,
                     timber_id |-> sales.timber_id,
                     quantity |-> sales.quantity,
                     price |-> sales.price,
                     created_at |-> t,
                     updated_at |-> None]
         IN  Out(do_insert_sales(g.st, rec), Ok(rec))

\* Slip: an absent id is not reported but inserted (an upsert).
update_timber_upsert(st, t, id, payload) ==
    IF ~Contains(VALID_TIMBER_TYPES, payload.timber_type)
    THEN Out(st, Err("Invalid timber type: " \o payload.timber_type
                     \o ". Valid types are: " \o ValidTypesDebug))
    ELSE IF ~Contains(VALID_TIMBER_SIZES, payload.timber_size)
    THEN Out(st, Err("Invalid timber size: " \o payload.timber_size
                     \o ". Valid sizes are: " \o ValidSizesDebug))
    ELSE IF payload.quantity = 0
    THEN Out(st, Err("Quantity must be greater than zero"))
    ELSE LET r == MapGet(st.timber, id)
             old == IF r # None THEN r[1]
                    ELSE [id |-> id, timber_type |-> "", timber_size |-> "",
                          quantity |-> 0, created_at |-> t, updated_at |-> None]
             timber == [old EXCEPT !.timber_type = payload.timber_type,
                                   !.timber_size = payload.timber_size,
                                   !.quantity = payload.quantity,
                                   !.updated_at = Some(t)]
         IN  Out(do_insert_timber(st, timber), Ok(timber))

\* Slip: the record is looked up before the payload is validated.
update_timber_lookup_first(st, t, id, payload) ==
    LET r == MapGet(st.timber, id)
    IN  IF r = None
        THEN Out(st, Err("Couldn't update timber with id=" \o ToString(id)
                         \o ". Timber not found"))
        ELSE IF ~Contains(VALID_TIMBER_TYPES, payload.timber_type)
        THEN Out(st, Err("Invalid timber type: " \o payload.timber_type
                         \o ". Valid types are: " \o ValidTypesDebug))
        ELSE IF ~Contains(VALID_TIMBER_SIZES, payload.timber_size)
        THEN Out(st, Err("Invalid timber size: " \o payload.timber_size
                         \o ". Valid sizes are: " \o ValidSizesDebug))
        ELSE IF payload.quantity = 0
        THEN Out(st, Err("Quantity must be greater than zero"))
        ELSE LET timber == [r[1] EXCEPT !.timber_type = payload.timber_type,
                                        !.timber_size = payload.timber_size,
                                        !.quantity = payload.quantity,
                                        !.updated_at = Some(t)]
             IN  Out(do_insert_timber(st, timber), Ok(timber))

\* Slip: the record is looked up under the id the payload carries.
update_timber_by_payload_id(st, t, id, payload) ==
    IF ~Contains(VALID_TIMBER_TYPES, payload.timber_type)
    THEN Out(st, Err("Invalid timber type: " \o payload.timber_type
                     \o ". Valid types are: " \o ValidTypesDebug))
    ELSE IF ~Contains(VALID_TIMBER_SIZES, payload.timber_size)
    THEN Out(st, Err("Invalid timber size: " \o payload.timber_size
                     \o ". Valid sizes are: " \o ValidSizesDebug))
    ELSE IF payload.quantity = 0
    THEN Out(st, Err("Quantity must be greater than zero"))
    ELSE LET r == MapGet(st.timber, payload.id)
         IN  IF r # None
             THEN LET timber == [r[1] EXCEPT !.timber_type = payload.timber_type,
                                             !.timber_size = payload.timber_size,
                                             !.quantity = payload.quantity,
                                             !.updated_at = Some(t)]
                  IN  Out(do_insert_timber(st, timber), Ok(timber))
             ELSE Out(st, Err("Couldn't update timber with id=" \o ToString(id)
                              \o ". Timber not found"))

update_timber(st, t, id, payload) ==
    IF ~Contains(VALID_TIMBER_TYPES, payload.timber_type)
    THEN Out(st, Err("Invalid timber type: " \o payload.timber_type
                     \o ". Valid types are: " \o ValidTypesDebug))
    ELSE IF ~Contains(VALID_TIMBER_SIZES, payload.timber_size)
    THEN Out(st, Err("Invalid timber size: " \o payload.timber_size
                     \o ". Valid sizes are: " \o ValidSizesDebug))
    ELSE IF payload.quantity = 0
    THEN Out(st, Err("Quantity must be greater than zero"))
    ELSE LET r == MapGet(st.timber, id)
         IN  IF r # None
             THEN LET timber == [r[1] EXCEPT !.timber_type = payload.timber_type,
                                             !.timber_size = payload.timber_size,
                                             !.quantity = payload.quantity,
                                             !.updated_at = Some(t)]
                  IN  Out(do_insert_timber(st, timber), Ok(timber))
             ELSE Out(st, Err("Couldn't update timber with id=" \o ToString(id)
                              \o ". Timber not found"))

\* Slip: the update stamps the creation time as well.
update_sales_restamp(st, t, id, payload) ==
    IF payload.quantity = 0
    THEN Out(st, Err("Quantity must be greater than zero"))
    ELSE IF payload.price = 0
    THEN Out(st, Err("Price must be greater than zero"))
    ELSE LET r == MapGet(st.sales, id)
         IN  IF r # None
             THEN LET sales == [r[1] EXCEPT !.quantity = payload.quantity,
                                            !.price = payload.price,
                                            !.created_at = t,
                                            !.updated_at = Some(t)]
                  IN  Out(do_insert_sales(st, sales), Ok(sales))
             ELSE Out(st, Err("Couldn't update sales with id=" \o ToString(id)
                              \o ". Sales not found"))

\* Slip: the update checks the sale's timber reference again, as the create does.
update_sales_revalidating(st, t, id, payload) ==
    IF payload.quantity = 0
    THEN Out(st, Err("Quantity must be greater than zero"))
    ELSE IF payload.price = 0
    THEN Out(st, Err("Price must be greater than zero"))
    ELSE LET r == MapGet(st.sales, id)
         IN  IF r # None
             THEN IF _get_timber(st, r[1].timber_id) = None
                  THEN Out(st, Err("Timber with id=" \o ToString(r[1].timber_id)
                                   \o " not found"))
                  ELSE LET sales == [r[1] EXCEPT !.quantity = payload.quantity,
                                                 !.price = payload.price,
                                                 !.updated_at = Some(t)]
                       IN  Out(do_insert_sales(st, sales), Ok(sales))
             ELSE Out(st, Err("Couldn't update sales with id=" \o ToString(id)
                              \o ". Sales not found"))

update_sales(st, t, id, payload) ==
    IF payload.quantity = 0
    THEN Out(st, Err("Quantity must be greater than zero"))
    ELSE IF payload.price = 0
    THEN Out(st, Err("Price must be greater than zero"))
    ELSE LET r == MapGet(st.sales, id)
         IN  IF r # None
             THEN LET sales == [r[1] EXCEPT !.quantity = payload.quantity,
                                            !.price = payload.price,
                                            !.updated_at = Some(t)]
                  IN  Out(do_insert_sales(st, sales), Ok(sales))
             ELSE Out(st, Err("Couldn't update sales with id=" \o ToString(id)
                              \o ". Sales not found"))

\* Slip: deleting a timber also deletes the sales that reference it.
delete_timber_cascade(st, id) ==
    LET r == MapGet(st.timber, id)
        kept == {k \in DOMAIN st.sales : st.sales[k].timber_id # id}
    IN  IF r # None
        THEN Out([st EXCEPT !.timber = MapRemove(@, id),
                            !.sales = [k \in kept |-> st.sales[k]]], Ok(r[1]))
        ELSE Out(st, Err("Couldn't delete timber with id=" \o ToString(id)
                         \o ". Timber not found"))

\* Slip: the looked-up record is returned but never removed.
delete_timber_keep(st, id) ==
    LET r == MapGet(st.timber, id)
    IN  IF r # None
        THEN Out(st, Ok(r[1]))
        ELSE Out(st, Err("Couldn't delete timber with id=" \o ToString(id)
                         \o ". Timber not found"))

delete_timber(st, id) ==
    LET r == MapGet(st.timber, id)
    IN  IF r # None
        THEN Out([st EXCEPT !.timber = MapRemove(@, id)], Ok(r[1]))
        ELSE Out(st, Err("Couldn't delete timber with id=" \o ToString(id)
                         \o ". Timber not found"))

\* Slip: the key is removed from the wrong map.
delete_sales_wrong_map(st, id) ==
    LET r == MapGet(st.sales, id)
    IN  IF r # None
        THEN Out([st EXCEPT !.timber = MapRemove(@, id)], Ok(r[1]))
        ELSE Out(st, Err("Couldn't delete sales with id=" \o ToString(id)
                         \o ". Sales not found"))

delete_sales(st, id) ==
    LET r == MapGet(st.sales, id)
    IN  IF r # None
        THEN Out([st EXCEPT !.sales = MapRemove(@, id)], Ok(r[1]))
        ELSE Out(st, Err("Couldn't delete sales with id=" \o ToString(id)
                         \o ". Sales not found"))

(* ---------------------------------------------------------------------- *)
(* Conjunction queries over TIMBER_STORAGE                                 *)
(* ---------------------------------------------------------------------- *)

\* StableBTreeMap::iter: the (key, value) pairs in ascending key order.
RECURSIVE IterFrom(_, _)
IterFrom(m, ks) ==
    IF ks = {} THEN <<>>
    ELSE LET k == CHOOSE x \in ks : \A y \in ks : x <= y
         IN  <<<<k, m[k]>>>> \o IterFrom(m, ks \ {k})

MapIter(m) == IterFrom(m, DOMAIN m)

\* .map(|(_, timber)| timber.clone()).collect()
RECURSIVE Values(_)
Values(pairs) ==
    IF pairs = <<>> THEN <<>>
    ELSE <<Head(pairs)[2]>> \o Values(Tail(pairs))

_get_timber_by_type_and_size(st, timber_type, timber_size) ==
    LET keep(e) == e[2].timber_type = timber_type /\ e[2].timber_size = timber_size
    IN  Values(SelectSeq(MapIter(st.timber), keep))

\* Slip: the two filters are joined by || instead of &&.
_get_timber_by_type_and_quantity_either(st, timber_type, quantity) ==
    LET keep(e) == e[2].timber_type = timber_type \/ e[2].quantity = quantity
    IN  Values(SelectSeq(MapIter(st.timber), keep))

_get_timber_by_type_and_quantity(st, timber_type, quantity) ==
    LET keep(e) == e[2].timber_type = timber_type /\ e[2].quantity = quantity
    IN  Values(SelectSeq(MapIter(st.timber), keep))

_get_timber_by_size_and_quantity(st, timber_size, quantity) ==
    LET keep(e) == e[2].timber_size = timber_size /\ e[2].quantity = quantity
    IN  Values(SelectSeq(MapIter(st.timber), keep))

_get_timber_by_type_and_size_and_quantity(st, timber_type, timber_size, quantity) ==
    LET keep(e) == /\ e[2].timber_type = timber_type
                   /\ e[2].timber_size = timber_size
                   /\ e[2].quantity = quantity
    IN  Values(SelectSeq(MapIter(st.timber), keep))

(* ---------------------------------------------------------------------- *)
(* State                                                                   *)
(* ---------------------------------------------------------------------- *)

VARIABLES
    ID_COUNTER,      \* the u64 held by the IdCell
    TIMBER_STORAGE,  \* StableBTreeMap<u64, Timber>: a function on its key set
    SALES_STORAGE,   \* StableBTreeMap<u64, Sales>
    now,             \* what ic_cdk::api::time() returns
    last,            \* the last call: endpoint and whether it returned Ok
    issued,          \* history: ids returned by successful creates, in order
    liveTimber,      \* history: ids returned by add_timber, not yet returned by delete_timber
    liveSales,       \* history: ids returned by add_sales, not yet returned by delete_sales
    bornAt,          \* history: the clock reading at the create of each record not yet deleted
    updated          \* history: ids of records not yet deleted that an update has succeeded on

vars == <<ID_COUNTER, TIMBER_STORAGE, SALES_STORAGE, now, last, issued, liveTimber, liveSales,
          bornAt, updated>>

\* The stable state the endpoints work on.
S == [counter |-> ID_COUNTER, timber |-> TIMBER_STORAGE, sales |-> SALES_STORAGE]

(* ---------------------------------------------------------------------- *)
(* Actions                                                                 *)
(* ---------------------------------------------------------------------- *)

Init ==
    /\ ID_COUNTER = 0
    /\ TIMBER_STORAGE = <<>>
    /\ SALES_STORAGE = <<>>
    /\ now = 0
    /\ last = [op |-> "init", ok |-> TRUE]
    /\ issued = <<>>
    /\ liveTimber = {}
    /\ liveSales = {}
    /\ bornAt = <<>>
    /\ updated = {}

\* One completed call of endpoint op with outcome out.
Call(op, out) ==
    /\ ID_COUNTER' = out.st.counter
    /\ TIMBER_STORAGE' = out.st.timber
    /\ SALES_STORAGE' = out.st.sales
    /\ last' = [op |-> op, ok |-> out.ret.ok]
    /\ issued' = IF op \in {"add_timber", "add_sales"} /\ out.ret.ok
                 THEN Append(issued, out.ret.val.id) ELSE issued
    /\ liveTimber' = IF op = "add_timber" /\ out.ret.ok THEN liveTimber \cup {out.ret.val.id}
                     ELSE IF op = "delete_timber" /\ out.ret.ok THEN liveTimber \ {out.ret.val.id}
                     ELSE liveTimber
    /\ liveSales' = IF op = "add_sales" /\ out.ret.ok THEN liveSales \cup {out.ret.val.id}
                    ELSE IF op = "delete_sales" /\ out.ret.ok THEN liveSales \ {out.ret.val.id}
                    ELSE liveSales
    /\ bornAt' = IF op \in {"add_timber", "add_sales"} /\ out.ret.ok
                 THEN MapInsert(bornAt, out.ret.val.id, now)
                 ELSE IF op \in {"delete_timber", "delete_sales"} /\ out.ret.ok
                 THEN MapRemove(bornAt, out.ret.val.id)
                 ELSE bornAt
    /\ updated' = IF op \in {"update_timber", "update_sales"} /\ out.ret.ok
                  THEN updated \cup {out.ret.val.id}
                  ELSE IF op \in {"delete_timber", "delete_sales"} /\ out.ret.ok
                  THEN updated \ {out.ret.val.id}
                  ELSE updated
    /\ UNCHANGED now

Tick ==
    /\ now < MaxTime
    /\ now' = now + 1
    /\ UNCHANGED <<ID_COUNTER, TIMBER_STORAGE, SALES_STORAGE, last, issued, liveTimber, liveSales,
                   bornAt, updated>>

GetTimber == \E id \in Ids : Call("get_timber", get_timber(S, id))

GetSales == \E id \in Ids : Call("get_sales", get_sales(S, id))

AddTimber ==
    \E p \in AddTimberInputs :
        LET out == add_timber(S, now, p)
        IN  /\ out.ret.ok => ID_COUNTER < MaxId
            /\ Call("add_timber", out)

AddSales ==
    \E p \in AddSalesInputs :
        LET out == add_sales(S, now, p)
        IN  /\ out.ret.ok => ID_COUNTER < MaxId
            /\ Call("add_sales", out)

UpdateTimber ==
    \E id \in Ids, p \in UpdateTimberInputs :
        Call("update_timber", update_timber(S, now, id, p))

UpdateSales ==
    \E id \in Ids, p \in UpdateSalesInputs :
        Call("update_sales", update_sales(S, now, id, p))

DeleteTimber == \E id \in Ids : Call("delete_timber", delete_timber(S, id))

DeleteSales == \E id \in Ids : Call("delete_sales", delete_sales(S, id))

\* One completed call of a query: it returns a Vec and touches no state.
Query(op, result) ==
    /\ last' = [op |-> op, ok |-> TRUE, n |-> Len(result)]
    /\ UNCHANGED <<ID_COUNTER, TIMBER_STORAGE, SALES_STORAGE, now, issued, liveTimber, liveSales,
                   bornAt, updated>>

GetTimberByTypeAndSize ==
    \E f \in QueryInputs :
        Query("_get_timber_by_type_and_size",
              _get_timber_by_type_and_size(S, f.timber_type, f.timber_size))

GetTimberByTypeAndQuantity ==
    \E f \in QueryInputs :
        Query("_get_timber_by_type_and_quantity",
              _get_timber_by_type_and_quantity(S, f.timber_type, f.quantity))

GetTimberBySizeAndQuantity ==
    \E f \in QueryInputs :
        Query("_get_timber_by_size_and_quantity",
              _get_timber_by_size_and_quantity(S, f.timber_size, f.quantity))

GetTimberByTypeAndSizeAndQuantity ==
    \E f \in QueryInputs :
        Query("_get_timber_by_type_and_size_and_quantity",
              _get_timber_by_type_and_size_and_quantity(S, f.timber_type, f.timber_size,
                                                        f.quantity))

Next ==
    \/ Tick
    \/ GetTimber
    \/ GetSales
    \/ AddTimber
    \/ AddSales
    \/ UpdateTimber
    \/ UpdateSales
    \/ DeleteTimber
    \/ DeleteSales
    \/ GetTimberByTypeAndSize
    \/ GetTimberByTypeAndQuantity
    \/ GetTimberBySizeAndQuantity
    \/ GetTimberByTypeAndSizeAndQuantity

Spec == Init /\ [][Next]_vars

(* ---------------------------------------------------------------------- *)
(* Properties                                                              *)
(* ---------------------------------------------------------------------- *)

Creates == {"add_timber", "add_sales"}

\* C1: every successful add_timber / add_sales returns an id strictly greater
\* than the id returned by every earlier successful create of either kind,
\* whatever failed calls, updates, deletes and reads happen in between; so the
\* issued ids are pairwise distinct and a deleted record's id is not issued again.
C1_IdsStrictlyIncreasing ==
    \A i, j \in 1 .. Len(issued) : i < j => issued[i] < issued[j]

\* A second create has succeeded after the first created record was deleted.
C1_Witness ==
    /\ Len(issued) >= 2
    /\ issued[1] \notin (DOMAIN TIMBER_STORAGE) \cup (DOMAIN SALES_STORAGE)
    /\ last.op \in Creates
    /\ last.ok

\* C2: every stored Timber has timber_type in VALID_TIMBER_TYPES, timber_size
\* in VALID_TIMBER_SIZES and quantity > 0, and every stored Sales has
\* quantity > 0 and price > 0, in every reachable state.
C2_StoredRecordsValid ==
    /\ \A k \in DOMAIN TIMBER_STORAGE :
          /\ Contains(VALID_TIMBER_TYPES, TIMBER_STORAGE[k].timber_type)
          /\ Contains(VALID_TIMBER_SIZES, TIMBER_STORAGE[k].timber_size)
          /\ TIMBER_STORAGE[k].quantity > 0
    /\ \A k \in DOMAIN SALES_STORAGE :
          /\ SALES_STORAGE[k].quantity > 0
          /\ SALES_STORAGE[k].price > 0

\* A timber and a sale are stored and a record has just been updated.
C2_Witness ==
    /\ DOMAIN TIMBER_STORAGE # {}
    /\ DOMAIN SALES_STORAGE # {}
    /\ last.op \in {"update_timber", "update_sales"}
    /\ last.ok

\* C3: add_timber with a timber_type outside VALID_TIMBER_TYPES, or a
\* timber_size outside VALID_TIMBER_SIZES, or quantity = 0 returns an error and
\* leaves TIMBER_STORAGE, SALES_STORAGE and ID_COUNTER unchanged.
C3_InvalidAddTimberRejected ==
    \A p \in TimberPayloads :
        (\/ ~Contains(VALID_TIMBER_TYPES, p.timber_type)
         \/ ~Contains(VALID_TIMBER_SIZES, p.timber_size)
         \/ p.quantity = 0)
        => LET out == add_timber(S, now, p)
           IN  /\ ~out.ret.ok
               /\ out.st.counter = ID_COUNTER
               /\ out.st.timber = TIMBER_STORAGE
               /\ out.st.sales = SALES_STORAGE

\* An add_timber has just been rejected in a state that holds records.
C3_Witness ==
    /\ last.op = "add_timber"
    /\ ~last.ok
    /\ DOMAIN TIMBER_STORAGE # {}
    /\ ID_COUNTER > 0

\* C4, as claimed: add_sales whose timber_id is not a key of TIMBER_STORAGE
\* returns the not-found error naming that timber_id and changes nothing.
C4_MissingTimberAlwaysNotFound ==
    \A p \in SalesPayloads :
        p.timber_id \notin DOMAIN TIMBER_STORAGE
        => LET out == add_sales(S, now, p)
           IN  /\ out.ret = Err("Timber with id=" \o ToString(p.timber_id) \o " not found")
               /\ out.st = S

\* C4, amended: add_sales whose timber_id is not a key of TIMBER_STORAGE
\* returns an error, inserts no Sales record and leaves ID_COUNTER,
\* TIMBER_STORAGE and SALES_STORAGE unchanged; the error is the not-found error
\* naming that timber_id when quantity > 0 and price > 0 (otherwise it is the
\* quantity or price error); and whenever add_sales succeeds, the referenced
\* timber_id is a key of TIMBER_STORAGE at that moment.
C4_MissingTimberRejected ==
    \A p \in SalesPayloads :
        LET out == add_sales(S, now, p)
        IN  /\ p.timber_id \notin DOMAIN TIMBER_STORAGE
               => /\ ~out.ret.ok
                  /\ out.st.counter = ID_COUNTER
                  /\ out.st.timber = TIMBER_STORAGE
                  /\ out.st.sales = SALES_STORAGE
            /\ (p.timber_id \notin DOMAIN TIMBER_STORAGE /\ p.quantity > 0 /\ p.price > 0)
               => out.ret = Err("Timber with id=" \o ToString(p.timber_id) \o " not found")
            /\ out.ret.ok => p.timber_id \in DOMAIN TIMBER_STORAGE

\* An add_sales has just failed while a sale is stored, so that the id of a
\* sale is among the timber_ids that are not keys of TIMBER_STORAGE.
C4_Witness ==
    /\ last.op = "add_sales"
    /\ ~last.ok
    /\ \E k \in DOMAIN SALES_STORAGE :
          /\ k \in Ids
          /\ k \notin DOMAIN TIMBER_STORAGE
          /\ ~add_sales(S, now, [timber_id |-> k, quantity |-> 1, price |-> 1]).ret.ok

\* C5: a successful update_timber / update_sales keeps the record's id and
\* created_at, sets updated_at to Some(current time), replaces the mutable
\* fields by the payload's, changes no other entry of either map nor the
\* counter, and a following get of that id returns the record it returned.
C5_UpdateEffect ==
    /\ \A id \in Ids, p \in TimberUpdatePayloads :
          LET out == update_timber(S, now, id, p)
          IN  out.ret.ok
              => /\ id \in DOMAIN TIMBER_STORAGE
                 /\ out.ret.val.id = TIMBER_STORAGE[id].id
                 /\ out.ret.val.created_at = TIMBER_STORAGE[id].created_at
                 /\ out.ret.val.updated_at # None
                 /\ out.ret.val.updated_at = Some(now)
                 /\ out.ret.val.timber_type = p.timber_type
                 /\ out.ret.val.timber_size = p.timber_size
                 /\ out.ret.val.quantity = p.quantity
                 /\ out.st.counter = ID_COUNTER
                 /\ out.st.sales = SALES_STORAGE
                 /\ DOMAIN out.st.timber = DOMAIN TIMBER_STORAGE
                 /\ \A k \in (DOMAIN TIMBER_STORAGE) \ {id} :
                       out.st.timber[k] = TIMBER_STORAGE[k]
                 /\ get_timber(out.st, id).ret = Ok(out.ret.val)
    /\ \A id \in Ids, p \in SalesUpdatePayloads :
          LET out == update_sales(S, now, id, p)
          IN  out.ret.ok
              => /\ id \in DOMAIN SALES_STORAGE
                 /\ out.ret.val.id = SALES_STORAGE[id].id
                 /\ out.ret.val.created_at = SALES_STORAGE[id].created_at
                 /\ out.ret.val.updated_at # None
                 /\ out.ret.val.updated_at = Some(now)
                 /\ out.ret.val.quantity = p.quantity
                 /\ out.ret.val.price = p.price
                 /\ out.st.counter = ID_COUNTER
                 /\ out.st.timber = TIMBER_STORAGE
                 /\ DOMAIN out.st.sales = DOMAIN SALES_STORAGE
                 /\ \A k \in (DOMAIN SALES_STORAGE) \ {id} :
                       out.st.sales[k] = SALES_STORAGE[k]
                 /\ get_sales(out.st, id).ret = Ok(out.ret.val)

\* An update_sales has just succeeded on a sale created at an earlier time.
C5_Witness ==
    /\ last.op = "update_sales"
    /\ last.ok
    /\ \E k \in DOMAIN SALES_STORAGE :
          /\ SALES_STORAGE[k].updated_at = Some(now)
          /\ SALES_STORAGE[k].created_at < now

\* C6: update_timber / update_sales with a valid payload and an id that is not
\* a key of the corresponding map return the not-found error and change
\* neither map nor the counter: update never creates a record.
C6_UpdateAbsentRejected ==
    /\ \A id \in Ids, p \in TimberUpdatePayloads :
          (/\ Contains(VALID_TIMBER_TYPES, p.timber_type)
           /\ Contains(VALID_TIMBER_SIZES, p.timber_size)
           /\ p.quantity > 0
           /\ id \notin DOMAIN TIMBER_STORAGE)
          => LET out == update_timber(S, now, id, p)
             IN  /\ out.ret = Err("Couldn't update timber with id=" \o ToString(id)
                                  \o ". Timber not found")
                 /\ out.st = S
    /\ \A id \in Ids, p \in SalesUpdatePayloads :
          (p.quantity > 0 /\ p.price > 0 /\ id \notin DOMAIN SALES_STORAGE)
          => LET out == update_sales(S, now, id, p)
             IN  /\ out.ret = Err("Couldn't update sales with id=" \o ToString(id)
                                  \o ". Sales not found")
                 /\ out.st = S

\* An update_timber has just failed after the first created record was deleted.
C6_Witness ==
    /\ last.op = "update_timber"
    /\ ~last.ok
    /\ Len(issued) >= 1
    /\ issued[1] \in Ids
    /\ issued[1] \notin (DOMAIN TIMBER_STORAGE) \cup (DOMAIN SALES_STORAGE)

\* C7: delete_timber / delete_sales on a present id returns the record stored
\* under id and removes exactly that key, leaving every other entry of that
\* map unchanged; deleting the same id again returns the not-found error and
\* changes no state.
C7_DeleteEffect ==
    /\ \A id \in Ids :
          id \in DOMAIN TIMBER_STORAGE
          => LET out == delete_timber(S, id)
                 again == delete_timber(out.st, id)
             IN  /\ out.ret = Ok(TIMBER_STORAGE[id])
                 /\ DOMAIN out.st.timber = (DOMAIN TIMBER_STORAGE) \ {id}
                 /\ \A k \in (DOMAIN TIMBER_STORAGE) \ {id} :
                       out.st.timber[k] = TIMBER_STORAGE[k]
                 /\ again.ret = Err("Couldn't delete timber with id=" \o ToString(id)
                                    \o ". Timber not found")
                 /\ again.st = out.st
    /\ \A id \in Ids :
          id \in DOMAIN SALES_STORAGE
          => LET out == delete_sales(S, id)
                 again == delete_sales(out.st, id)
             IN  /\ out.ret = Ok(SALES_STORAGE[id])
                 /\ DOMAIN out.st.sales = (DOMAIN SALES_STORAGE) \ {id}
                 /\ \A k \in (DOMAIN SALES_STORAGE) \ {id} :
                       out.st.sales[k] = SALES_STORAGE[k]
                 /\ again.ret = Err("Couldn't delete sales with id=" \o ToString(id)
                                    \o ". Sales not found")
                 /\ again.st = out.st

\* A delete_timber has just failed although a timber was created before: every
\* timber created so far has been deleted.
C7_Witness ==
    /\ last.op = "delete_timber"
    /\ ~last.ok
    /\ Len(issued) >= 1
    /\ liveSales = {}
    /\ DOMAIN TIMBER_STORAGE = {}

\* C8: for every valid payload, add_timber (add_sales) succeeds with the record
\* made of the payload fields, a newly allocated id, created_at = the time of
\* the call and updated_at absent, and get_timber (get_sales) of the returned
\* id right after returns that same record.
C8_CreateThenGet ==
    /\ \A p \in TimberPayloads :
          (/\ Contains(VALID_TIMBER_TYPES, p.timber_type)
           /\ Contains(VALID_TIMBER_SIZES, p.timber_size)
           /\ p.quantity > 0)
          => LET out == add_timber(S, now, p)
             IN  /\ out.ret.ok
                 /\ out.ret.val.id \notin (DOMAIN TIMBER_STORAGE) \cup (DOMAIN SALES_STORAGE)
                 /\ \A i \in 1 .. Len(issued) : issued[i] # out.ret.val.id
                 /\ out.ret.val = [id |-> out.st.counter,
                                   timber_type |-> p.timber_type,
                                   timber_size |-> p.timber_size,
                                   quantity |-> p.quantity,
                                   created_at |-> now,
                                   updated_at |-> None]
                 /\ get_timber(out.st, out.ret.val.id).ret = Ok(out.ret.val)
    /\ \A p \in SalesPayloads :
          (p.quantity > 0 /\ p.price > 0 /\ p.timber_id \in DOMAIN TIMBER_STORAGE)
          => LET out == add_sales(S, now, p)
             IN  /\ out.ret.ok
                 /\ out.ret.val.id \notin (DOMAIN TIMBER_STORAGE) \cup (DOMAIN SALES_STORAGE)
                 /\ \A i \in 1 .. Len(issued) : issued[i] # out.ret.val.id
                 /\ out.ret.val = [id |-> out.st.counter,
                                   timber_id |-> p.timber_id,
                                   quantity |-> p.quantity,
                                   price |-> p.price,
                                   created_at |-> now,
                                   updated_at |-> None]
                 /\ get_sales(out.st, out.ret.val.id).ret = Ok(out.ret.val)

\* The most recently created record is a timber that was never updated and a
\* get_timber has just succeeded.
C8_Witness ==
    /\ last.op = "get_timber"
    /\ last.ok
    /\ ID_COUNTER \in DOMAIN TIMBER_STORAGE
    /\ TIMBER_STORAGE[ID_COUNTER].updated_at = None

\* C9: get_timber(id) returns a record iff id was returned by a successful
\* add_timber and not since by a successful delete_timber, and otherwise the
\* not-found error (likewise get_sales); the id of a sale is not found by
\* get_timber and vice versa; the gets change no state.
C9_GetIffLive ==
    \A id \in Ids :
        LET gt == get_timber(S, id)
            gs == get_sales(S, id)
        IN  /\ gt.ret.ok <=> id \in liveTimber
            /\ gs.ret.ok <=> id \in liveSales
            /\ gt.ret.ok => gt.ret.val.id = id
            /\ gs.ret.ok => gs.ret.val.id = id
            /\ ~gt.ret.ok => gt.ret.err = "Timber with id=" \o ToString(id) \o " not found"
            /\ ~gs.ret.ok => gs.ret.err = "Sales with id=" \o ToString(id) \o " not found"
            /\ id \in liveSales => ~gt.ret.ok
            /\ id \in liveTimber => ~gs.ret.ok
            /\ gt.st = S
            /\ gs.st = S

\* A get_timber has just failed while a sale exists and a record was deleted.
C9_Witness ==
    /\ last.op = "get_timber"
    /\ ~last.ok
    /\ liveSales # {}
    /\ Len(issued) > Cardinality(liveTimber \cup liveSales)

\* C10: delete_timber(id) succeeds and leaves SALES_STORAGE unchanged even
\* when stored sales have timber_id = id, so a state in which a stored sale's
\* timber_id is not a key of TIMBER_STORAGE is reachable.
C10_DeleteTimberKeepsSales ==
    \A id \in Ids :
        id \in DOMAIN TIMBER_STORAGE
        => LET out == delete_timber(S, id)
           IN  /\ out.ret.ok
               /\ id \notin DOMAIN out.st.timber
               /\ out.st.sales = SALES_STORAGE
               /\ out.st.counter = ID_COUNTER

\* A delete_timber has just succeeded and a stored sale references a timber_id
\* that is not a key of TIMBER_STORAGE.
C10_Witness ==
    /\ last.op = "delete_timber"
    /\ last.ok
    /\ \E k \in DOMAIN SALES_STORAGE :
          SALES_STORAGE[k].timber_id \notin DOMAIN TIMBER_STORAGE

\* r lists exactly the stored timbers that satisfy keep, each once, in
\* ascending id order.
ExactlyMatching(r, keep(_)) ==
    /\ \A i \in 1 .. Len(r) :
          /\ r[i].id \in DOMAIN TIMBER_STORAGE
          /\ r[i] = TIMBER_STORAGE[r[i].id]
          /\ keep(r[i])
    /\ \A k \in DOMAIN TIMBER_STORAGE :
          keep(TIMBER_STORAGE[k]) => \E i \in 1 .. Len(r) : r[i] = TIMBER_STORAGE[k]
    /\ \A i, j \in 1 .. Len(r) : i < j => r[i].id < r[j].id

\* C11: each conjunction query over timber returns exactly the stored Timber
\* records that satisfy every filter field, each exactly once and in ascending
\* id order; records that match only some of the filter fields are excluded.
\* (The queries are functions of the state only, so they change none.)
C11_ConjunctionQueries ==
    \A ty \in QueryTypes, sz \in QuerySizes, q \in QueryQuantities :
        LET ts(x)  == x.timber_type = ty /\ x.timber_size = sz
            tq(x)  == x.timber_type = ty /\ x.quantity = q
            sq(x)  == x.timber_size = sz /\ x.quantity = q
            tsq(x) == x.timber_type = ty /\ x.timber_size = sz /\ x.quantity = q
        IN  /\ ExactlyMatching(_get_timber_by_type_and_size(S, ty, sz), ts)
            /\ ExactlyMatching(_get_timber_by_type_and_quantity(S, ty, q), tq)
            /\ ExactlyMatching(_get_timber_by_size_and_quantity(S, sz, q), sq)
            /\ ExactlyMatching(_get_timber_by_type_and_size_and_quantity(S, ty, sz, q), tsq)

\* A type-and-quantity query has just returned one of two stored timbers: the
\* other one matches a filter field of some query but not both.
C11_Witness ==
    /\ last.op = "_get_timber_by_type_and_quantity"
    /\ last.n = 1
    /\ Cardinality(DOMAIN TIMBER_STORAGE) = 2
    /\ \E k \in DOMAIN TIMBER_STORAGE, ty \in QueryTypes, q \in QueryQuantities :
          /\ TIMBER_STORAGE[k].timber_type = ty
          /\ TIMBER_STORAGE[k].quantity # q
          /\ Len(_get_timber_by_type_and_quantity(S, ty, q)) = 0

\* sub occurs in the string s.
IsSubstring(sub, s) ==
    \E i \in 1 .. (Len(s) - Len(sub) + 1) : SubSeq(s, i, i + Len(sub) - 1) = sub

\* The check of add_timber / update_timber that a payload fails first.
FirstViolation(p) ==
    IF ~Contains(VALID_TIMBER_TYPES, p.timber_type) THEN "type"
    ELSE IF ~Contains(VALID_TIMBER_SIZES, p.timber_size) THEN "size"
    ELSE IF p.quantity = 0 THEN "quantity"
    ELSE "none"

\* The state after construction, and what add_timber answers in it.
EmptyState == [counter |-> 0, timber |-> <<>>, sales |-> <<>>]
RejectionOf(p) == add_timber(EmptyState, 0, p).ret

\* The rejection of p contains the value that failed, as {} prints it.
NamesInvalidValue(p) ==
    LET v == CASE FirstViolation(p) = "type" -> p.timber_type
               [] FirstViolation(p) = "size" -> p.timber_size
               [] OTHER -> ToString(p.quantity)
    IN  IsSubstring(v, RejectionOf(p).err)

\* The rejection of p for its type or size contains every allowed value.
NamesAllowedSet(p) ==
    LET allowed == IF FirstViolation(p) = "type" THEN VALID_TIMBER_TYPES
                   ELSE VALID_TIMBER_SIZES
    IN  \A i \in 1 .. Len(allowed) : IsSubstring(allowed[i], RejectionOf(p).err)

\* Payloads failing different checks are rejected with different messages.
RejectionsDistinct ==
    \A p, q \in InvalidTimberPayloads :
        FirstViolation(p) # FirstViolation(q) => RejectionOf(p).err # RejectionOf(q).err

\* The messages of the type and the size violation name the value and the set.
TypeAndSizeRejectionsNameValueAndSet ==
    \A p \in InvalidTimberPayloads :
        FirstViolation(p) \in {"type", "size"}
        => ~RejectionOf(p).ok /\ NamesInvalidValue(p) /\ NamesAllowedSet(p)

\* The message of every violation names the value that failed.
AllRejectionsNameValue ==
    \A p \in InvalidTimberPayloads : ~RejectionOf(p).ok /\ NamesInvalidValue(p)

\* In the current state add_timber and update_timber answer an invalid payload
\* with the rejection analysed above.
RejectionsAsAnalysed ==
    \A p \in InvalidTimberPayloads :
        /\ add_timber(S, now, p).ret = RejectionOf(p)
        /\ \A id \in Ids, j \in PayloadIds :
              update_timber(S, now, id,
                            [id |-> j, timber_type |-> p.timber_type,
                             timber_size |-> p.timber_size,
                             quantity |-> p.quantity]).ret = RejectionOf(p)

\* C12, as claimed: in add_timber and update_timber each of the three
\* violations (type, size, zero quantity) produces a message distinct from the
\* other two, and that message names the invalid value and the allowed set.
C12_EveryRejectionNamesValue ==
    /\ RejectionsAsAnalysed
    /\ RejectionsDistinct
    /\ TypeAndSizeRejectionsNameValueAndSet
    /\ AllRejectionsNameValue

\* C12, amended: each of the three violations produces a message distinct from
\* the other two; the messages of an invalid timber_type and of an invalid
\* timber_size name the invalid value and list the allowed values; the message
\* of a zero quantity is the fixed text "Quantity must be greater than zero",
\* which states the rule and does not contain the value passed.
C12_RejectionMessages ==
    /\ RejectionsAsAnalysed
    /\ RejectionsDistinct
    /\ TypeAndSizeRejectionsNameValueAndSet
    /\ \A p \in InvalidTimberPayloads :
          FirstViolation(p) = "quantity"
          => RejectionOf(p) = Err("Quantity must be greater than zero")

\* An update_timber has just been rejected while a timber is stored.
C12_Witness ==
    /\ last.op = "update_timber"
    /\ ~last.ok
    /\ DOMAIN TIMBER_STORAGE # {}
    /\ \E p \in InvalidTimberPayloads : FirstViolation(p) = "size"
    /\ \E p \in InvalidTimberPayloads : FirstViolation(p) = "type"
    /\ \E p \in InvalidTimberPayloads : FirstViolation(p) = "quantity"

\* C13: update_sales(id, payload) on an existing sale with quantity > 0 and
\* price > 0 succeeds whether or not the sale's timber_id is still a key of
\* TIMBER_STORAGE, and never changes the stored timber_id: only quantity, price
\* and updated_at of that sale change.
C13_UpdateSalesKeepsReference ==
    \A id \in Ids, p \in SalesUpdatePayloads :
        (p.quantity > 0 /\ p.price > 0 /\ id \in DOMAIN SALES_STORAGE)
        => LET out == update_sales(S, now, id, p)
           IN  /\ out.ret.ok
               /\ out.st.sales[id] = out.ret.val
               /\ out.ret.val = [SALES_STORAGE[id] EXCEPT !.quantity = p.quantity,
                                                          !.price = p.price,
                                                          !.updated_at = out.ret.val.updated_at]
               /\ out.ret.val.timber_id = SALES_STORAGE[id].timber_id
               /\ out.st.timber = TIMBER_STORAGE
               /\ out.st.counter = ID_COUNTER
               /\ \A k \in (DOMAIN out.st.sales) \cup (DOMAIN SALES_STORAGE) :
                     k # id => /\ k \in DOMAIN out.st.sales
                               /\ k \in DOMAIN SALES_STORAGE
                               /\ out.st.sales[k] = SALES_STORAGE[k]

\* An update_sales has just succeeded on a sale whose timber_id is not a key
\* of TIMBER_STORAGE: the sale was updated at a time it was already dangling
\* or is dangling now, and it still carries the timber_id.
C13_Witness ==
    /\ last.op = "update_sales"
    /\ last.ok
    /\ DOMAIN SALES_STORAGE # {}
    /\ \A k \in DOMAIN SALES_STORAGE :
          /\ SALES_STORAGE[k].timber_id \notin DOMAIN TIMBER_STORAGE
          /\ SALES_STORAGE[k].updated_at # None

\* C14: payload validation comes before any lookup.  update_timber /
\* update_sales with an invalid payload return the validation error even when
\* the id is absent, and add_sales with quantity = 0 or price = 0 returns the
\* quantity / price error even when timber_id does not exist; the first
\* failing check in the order type, size, quantity (timber) or quantity, price
\* (sales) determines the error; and no state changes.
C14_ValidationBeforeLookup ==
    /\ \A id \in Ids, p \in TimberUpdatePayloads :
          FirstViolation(p) # "none"
          => LET out == update_timber(S, now, id, p)
             IN  /\ out.st = S
                 /\ out.ret =
                      CASE FirstViolation(p) = "type" ->
                             Err("Invalid timber type: " \o p.timber_type
                                 \o ". Valid types are: " \o ValidTypesDebug)
                        [] FirstViolation(p) = "size" ->
                             Err("Invalid timber size: " \o p.timber_size
                                 \o ". Valid sizes are: " \o ValidSizesDebug)
                        [] OTHER -> Err("Quantity must be greater than zero")
    /\ \A id \in Ids, p \in SalesUpdatePayloads :
          (p.quantity = 0 \/ p.price = 0)
          => LET out == update_sales(S, now, id, p)
             IN  /\ out.st = S
                 /\ out.ret = IF p.quantity = 0
                              THEN Err("Quantity must be greater than zero")
                              ELSE Err("Price must be greater than zero")
    /\ \A p \in SalesPayloads :
          (p.quantity = 0 \/ p.price = 0)
          => LET out == add_sales(S, now, p)
             IN  /\ out.st = S
                 /\ out.ret = IF p.quantity = 0
                              THEN Err("Quantity must be greater than zero")
                              ELSE Err("Price must be greater than zero")

\* An update_timber has just been rejected while TIMBER_STORAGE is empty after
\* a create: every id is absent, whatever the payload was.
C14_Witness ==
    /\ last.op = "update_timber"
    /\ ~last.ok
    /\ Len(issued) >= 1
    /\ DOMAIN TIMBER_STORAGE = {}
    /\ \E p \in UpdateTimberInputs :
          /\ FirstViolation(p) = "size"
          /\ p.quantity = 0
          /\ \A id \in Ids : ~update_timber(S, now, id, p).ret.ok

\* C15: each record is stored under the key equal to its own id field, every
\* key of TIMBER_STORAGE and SALES_STORAGE is at least 1 and at most
\* ID_COUNTER, and the two key sets are disjoint.
C15_KeysAreIds ==
    /\ \A k \in DOMAIN TIMBER_STORAGE :
          TIMBER_STORAGE[k].id = k /\ 1 <= k /\ k <= ID_COUNTER
    /\ \A k \in DOMAIN SALES_STORAGE :
          SALES_STORAGE[k].id = k /\ 1 <= k /\ k <= ID_COUNTER
    /\ (DOMAIN TIMBER_STORAGE) \cap (DOMAIN SALES_STORAGE) = {}

\* An add_sales has just succeeded: the newest key is a sale's and equals the
\* counter, and a timber is stored next to it.
C15_Witness ==
    /\ last.op = "add_sales"
    /\ last.ok
    /\ ID_COUNTER \in DOMAIN SALES_STORAGE
    /\ DOMAIN TIMBER_STORAGE # {}

\* C16: ID_COUNTER starts at 0 and always equals the number of successful
\* add_timber and add_sales calls so far: a successful create increases it by
\* exactly 1, and every failed create, update, delete and read leaves it
\* unchanged; so it never decreases and the first id issued is 1.
C16_CounterCountsCreates ==
    /\ last.op = "init" => ID_COUNTER = 0
    /\ ID_COUNTER = Len(issued)
    /\ Len(issued) >= 1 => issued[1] = 1
    /\ \A p \in TimberPayloads :
          LET out == add_timber(S, now, p)
          IN  out.st.counter = IF out.ret.ok THEN ID_COUNTER + 1 ELSE ID_COUNTER
    /\ \A p \in SalesPayloads :
          LET out == add_sales(S, now, p)
          IN  out.st.counter = IF out.ret.ok THEN ID_COUNTER + 1 ELSE ID_COUNTER
    /\ \A id \in Ids :
          /\ get_timber(S, id).st.counter = ID_COUNTER
          /\ get_sales(S, id).st.counter = ID_COUNTER
          /\ delete_timber(S, id).st.counter = ID_COUNTER
          /\ delete_sales(S, id).st.counter = ID_COUNTER
          /\ \A p \in TimberUpdatePayloads :
                update_timber(S, now, id, p).st.counter = ID_COUNTER
          /\ \A p \in SalesUpdatePayloads :
                update_sales(S, now, id, p).st.counter = ID_COUNTER

\* An add_sales has just failed after two creates and a delete: the counter is
\* ahead of the number of stored records.
C16_Witness ==
    /\ last.op = "add_sales"
    /\ ~last.ok
    /\ ID_COUNTER >= 2
    /\ Cardinality(DOMAIN TIMBER_STORAGE) + Cardinality(DOMAIN SALES_STORAGE) < ID_COUNTER

\* The timestamps of a record stored under key k agree with its history.
TimestampsAgree(rec, k) ==
    /\ rec.updated_at = None <=> k \notin updated
    /\ rec.updated_at # None => rec.updated_at[1] >= rec.created_at
    /\ k \in DOMAIN bornAt
    /\ rec.created_at = bornAt[k]

\* C17: for every stored record, updated_at is absent if and only if no update
\* of that record has succeeded since its creation; with a clock that never
\* goes back every present updated_at is at least created_at; and created_at
\* is the clock reading at the record's creation for as long as it is stored.
C17_Timestamps ==
    /\ \A k \in DOMAIN TIMBER_STORAGE : TimestampsAgree(TIMBER_STORAGE[k], k)
    /\ \A k \in DOMAIN SALES_STORAGE : TimestampsAgree(SALES_STORAGE[k], k)

\* A timber created at time 0 was updated after the clock moved, next to a
\* sale created after the clock moved and never updated.
C17_Witness ==
    /\ last.op = "update_timber"
    /\ last.ok
    /\ \E k \in DOMAIN TIMBER_STORAGE :
          /\ TIMBER_STORAGE[k].created_at = 0
          /\ TIMBER_STORAGE[k].updated_at = Some(1)
    /\ \E k \in DOMAIN SALES_STORAGE :
          /\ SALES_STORAGE[k].created_at = 1
          /\ SALES_STORAGE[k].updated_at = None

\* A successful update of the entry of map before under id, seen in map after:
\* the returned record rec is stored under id with id as its identifier and
\* every other entry is as it was.
OnlyUnder(before, after, id, rec) ==
    /\ rec.id = id
    /\ DOMAIN after = DOMAIN before
    /\ after[id] = rec
    /\ \A k \in DOMAIN before : k # id => after[k] = before[k]

\* C18: the id field inside TimberUpdatePayload / SalesUpdatePayload is
\* ignored: update_timber(id, payload) and update_sales(id, payload) have the
\* same outcome for every value of payload.id, and a successful call with
\* payload.id = j different from id updates the record under id, which keeps
\* id as its identifier, and leaves the record under j, if any, unchanged.
C18_PayloadIdIgnored ==
    \A id \in Ids :
        /\ \A p \in TimberUpdatePayloads :
              LET out == update_timber(S, now, id, p)
              IN  /\ \A j \in PayloadIds \ {p.id} :
                        update_timber(S, now, id, [p EXCEPT !.id = j]) = out
                  /\ out.ret.ok =>
                        /\ OnlyUnder(TIMBER_STORAGE, out.st.timber, id, out.ret.val)
                        /\ out.st.sales = SALES_STORAGE
        /\ \A p \in SalesUpdatePayloads :
              LET out == update_sales(S, now, id, p)
              IN  /\ \A j \in PayloadIds \ {p.id} :
                        update_sales(S, now, id, [p EXCEPT !.id = j]) = out
                  /\ out.ret.ok =>
                        /\ OnlyUnder(SALES_STORAGE, out.st.sales, id, out.ret.val)
                        /\ out.st.timber = TIMBER_STORAGE

\* An update_timber has just succeeded with two timbers stored, the ids the
\* payloads carry: one of them has been updated and the other never.
C18_Witness ==
    /\ last.op = "update_timber"
    /\ last.ok
    /\ PayloadIds \subseteq DOMAIN TIMBER_STORAGE
    /\ \E k \in PayloadIds : k \in updated /\ (PayloadIds \ {k}) \cap updated = {}

====
